---- MODULE Spec2Model ----
(***************************************************************************)
(* Model of the JWT bearer-token gate of arthosbraga/apiGo (src/main.go).  *)
(*                                                                         *)
(* Strings that the code inspects character by character (the value of    *)
(* the Authorization header, the token string) are sequences of atoms.    *)
(* An atom is either one character, Ch(c), or one base64url segment of a  *)
(* token: HdrSeg (the JOSE header), ClaimsSeg (the JSON payload) or       *)
(* SigSeg (the signature bytes).  A signature is the symbolic term        *)
(* HMAC(alg, key, signing input); it equals another signature only when   *)
(* algorithm, key and signed input all agree.                             *)
(***************************************************************************)
EXTENDS Integers, Sequences, FiniteSets, TLC

\* ------------------------------------------------------------------ bounds
NumRequests == 2
Now == 5

Requests == 1..NumRequests

\* ------------------------------------------------------- program constants
Secret == "minha_chave_super_secreta"
OtherKey == "outra_chave"

StatusOK == 200
StatusUnauthorized == 401
StatusNotFound == 404

\* the messages of the source, without their diacritics
MsgHeaderNotFound == "Cabecalho de autorizacao nao encontrado"
MsgInvalidFormat == "Formato do token de autorizacao invalido"
MsgInvalidToken == "Token invalido"
MsgArticleNotFound == "Artigo nao encontrado"

\* ------------------------------------------------------------- strings
Ch(c) == [c |-> c]
Dot == Ch(".")
EmptyString == << >>
BearerPrefix == <<Ch("B"), Ch("e"), Ch("a"), Ch("r"), Ch("e"), Ch("r"), Ch(" ")>>

HasPrefix(s, prefix) ==
    /\ Len(s) >= Len(prefix)
    /\ SubSeq(s, 1, Len(prefix)) = prefix

Fold(a) == IF a = Ch("B") THEN Ch("b") ELSE a

\* variant: the prefix is matched without regard to case
TrimPrefixFold(s, prefix) ==
    IF /\ Len(s) >= Len(prefix)
       /\ \A i \in 1..Len(prefix) : Fold(s[i]) = Fold(prefix[i])
    THEN SubSeq(s, Len(prefix) + 1, Len(s))
    ELSE s

\* strings.TrimPrefix: s without the leading prefix, or s itself
TrimPrefix(s, prefix) ==
    IF HasPrefix(s, prefix) THEN SubSeq(s, Len(prefix) + 1, Len(s)) ELSE s

\* ------------------------------------------------------------- tokens
HdrSeg(alg) == [hdr |-> [alg |-> alg]]
ClaimsSeg(payload) == [cl |-> payload]
HMAC(alg, key, input) == [alg |-> alg, key |-> key, over |-> input]
SigSeg(mac) == [sig |-> mac]

IsHdrSeg(a) == DOMAIN a = {"hdr"}
IsClaimsSeg(a) == DOMAIN a = {"cl"}
IsSigSeg(a) == DOMAIN a = {"sig"}

\* what an issuer holding key produces for payload under alg
Mint(alg, key, payload) ==
    <<HdrSeg(alg), Dot, ClaimsSeg(payload), Dot,
      SigSeg(HMAC(alg, key, <<HdrSeg(alg), ClaimsSeg(payload)>>))>>

\* ------------------------------------------------- jwt.ParseWithClaims
HMACMethods == {"HS256", "HS384", "HS512"}
RegisteredMethods == HMACMethods \cup {"RS256", "ES256", "none"}

RECURSIVE Split(_)
\* the segments of s between its dots
Split(s) ==
    IF \A i \in 1..Len(s) : s[i] # Dot
    THEN <<s>>
    ELSE LET i == CHOOSE k \in 1..Len(s) :
                      s[k] = Dot /\ \A j \in 1..(k - 1) : s[j] # Dot
         IN  <<SubSeq(s, 1, i - 1)>> \o Split(SubSeq(s, i + 1, Len(s)))

\* the zero value of the Claims struct
ZeroClaims == [Username |-> "", ExpiresAt |-> {}, NotBefore |-> {}]

\* variant: the username field is not bound to the "username" member
ClaimsWithoutUsername(payload) ==
    [Username  |-> "",
     ExpiresAt |-> IF "exp" \in DOMAIN payload THEN {payload.exp} ELSE {},
     NotBefore |-> IF "nbf" \in DOMAIN payload THEN {payload.nbf} ELSE {}]

\* JSON-decoding a payload into the Claims struct: absent fields stay zero
Claims(payload) ==
    [Username  |-> IF "username" \in DOMAIN payload THEN payload.username ELSE "",
     ExpiresAt |-> IF "exp" \in DOMAIN payload THEN {payload.exp} ELSE {},
     NotBefore |-> IF "nbf" \in DOMAIN payload THEN {payload.nbf} ELSE {}]

\* variant: the key function hands the secret to any method
KeyFuncAnyMethod(alg, key) == [err |-> FALSE, key |-> key]

\* the key function handed to the parser: the secret, for HMAC methods only
KeyFunc(alg, key) ==
    IF alg \in HMACMethods
    THEN [err |-> FALSE, key |-> key]
    ELSE [err |-> TRUE, key |-> ""]

\* SigningMethodHMAC.Verify: recompute the MAC and compare
VerifyHMAC(alg, signingInput, sigSeg, key) ==
    /\ Len(sigSeg) = 1
    /\ IsSigSeg(sigSeg[1])
    /\ sigSeg[1].sig = HMAC(alg, key, signingInput)

\* the temporal checks of the registered claims at time now
ClaimsError(c, now) ==
    IF \E e \in c.ExpiresAt : ~(now < e) THEN "expired"
    ELSE IF \E n \in c.NotBefore : now < n THEN "not_valid_yet"
    ELSE ""

\* Method.Verify as the parser dispatches it on the declared algorithm: the
\* key function's result is a byte string, which only the HMAC methods take
Verify(alg, signingInput, sigSeg, key) ==
    /\ alg \in HMACMethods
    /\ VerifyHMAC(alg, signingInput, sigSeg, key)

\* what the parser hands back: the error, token.Valid, the caller's claims
\* struct as the parser left it, and what happened to the key function
ParseResult(err, valid, claims, keyFuncCalled, keyReturned) ==
    [err |-> err, valid |-> valid, claims |-> claims,
     keyFuncCalled |-> keyFuncCalled, keyReturned |-> keyReturned]


\* jwt.ParseWithClaims(tokenString, claims, keyFunc); claims is the caller's
\* struct and is filled in as soon as the payload decodes
ParseWithClaims(tokenString, claims, key, now) ==
    LET parts == Split(tokenString) IN
    IF Len(parts) # 3
    THEN ParseResult("malformed", FALSE, claims, FALSE, FALSE)
    ELSE IF ~(Len(parts[1]) = 1 /\ IsHdrSeg(parts[1][1]))
    THEN ParseResult("malformed", FALSE, claims, FALSE, FALSE)
    ELSE IF ~(Len(parts[2]) = 1 /\ IsClaimsSeg(parts[2][1]))
    THEN ParseResult("malformed", FALSE, claims, FALSE, FALSE)
    ELSE
    LET alg     == parts[1][1].hdr.alg
        decoded == Claims(parts[2][1].cl)
        keyRes  == KeyFunc(alg, key)
    IN
    IF alg \notin RegisteredMethods
    THEN ParseResult("unavailable", FALSE, decoded, FALSE, FALSE)
    ELSE IF keyRes.err
    THEN ParseResult("unverifiable", FALSE, decoded, TRUE, FALSE)
    ELSE IF ~(Len(parts[3]) = 0 \/ (Len(parts[3]) = 1 /\ IsSigSeg(parts[3][1])))
    THEN ParseResult("malformed", FALSE, decoded, TRUE, TRUE)
    ELSE IF ~Verify(alg, <<parts[1][1], parts[2][1]>>, parts[3], keyRes.key)
    THEN ParseResult("signature_invalid", FALSE, decoded, TRUE, TRUE)
    ELSE IF ClaimsError(decoded, now) # ""
    THEN ParseResult(ClaimsError(decoded, now), FALSE, decoded, TRUE, TRUE)
    ELSE ParseResult("", TRUE, decoded, TRUE, TRUE)

\* ------------------------------------------------------------- inputs
AlicePayload == [username |-> "alice", exp |-> Now + 1]
BobPayload == [username |-> "bob"]
ExpiredPayload == [username |-> "alice", exp |-> Now - 1]
ExpiringNowPayload == [username |-> "bob", exp |-> Now]
NotYetPayload == [username |-> "alice", nbf |-> Now + 1]
NoUserPayload == [exp |-> Now + 1]
EmptyUserPayload == [username |-> "", exp |-> Now + 1]
NoUserNotYetPayload == [exp |-> Now + 2, nbf |-> Now + 1]

Payloads ==
    {AlicePayload, BobPayload, ExpiredPayload, ExpiringNowPayload, NotYetPayload,
     NoUserPayload, EmptyUserPayload, NoUserNotYetPayload}

AliceToken == Mint("HS256", Secret, AlicePayload)

\* tokens an issuer holding the secret would mint
IssuedTokens ==
    {Mint("HS256", Secret, p) : p \in Payloads} \cup {Mint("HS512", Secret, BobPayload)}

\* tokens an attacker without the secret can put together
ForgedTokens ==
    {Mint("HS256", OtherKey, AlicePayload),
     \* payload swapped under a signature made for another payload
     <<HdrSeg("HS256"), Dot, ClaimsSeg(BobPayload), Dot, AliceToken[5]>>,
     \* algorithm swapped under a signature made for another algorithm
     <<HdrSeg("HS512"), Dot, ClaimsSeg(AlicePayload), Dot, AliceToken[5]>>,
     \* signature stripped, algorithm "none"
     <<HdrSeg("none"), Dot, ClaimsSeg(AlicePayload), Dot>>,
     \* algorithm "none" over a genuine signature
     <<HdrSeg("none"), Dot, ClaimsSeg(AlicePayload), Dot, AliceToken[5]>>,
     \* asymmetric algorithms
     Mint("RS256", Secret, AlicePayload),
     <<HdrSeg("ES256"), Dot, ClaimsSeg(BobPayload), Dot, AliceToken[5]>>,
     \* an algorithm no method is registered for
     Mint("XX", Secret, AlicePayload)}

\* strings that are no token at all
BrokenTokens ==
    {EmptyString,
     <<Ch("x")>>,
     <<HdrSeg("HS256"), Dot, ClaimsSeg(AlicePayload)>>,
     <<Ch("x"), Dot, ClaimsSeg(AlicePayload), Dot, AliceToken[5]>>,
     <<HdrSeg("none"), Dot, Ch("x"), Dot>>}

Tokens == IssuedTokens \cup ForgedTokens \cup BrokenTokens

\* values of the Authorization header that do not carry the prefix
UnprefixedValues ==
    {EmptyString,
     AliceToken,
     <<Ch("b"), Ch("e"), Ch("a"), Ch("r"), Ch("e"), Ch("r"), Ch(" ")>> \o AliceToken,
     <<Ch("B"), Ch("e"), Ch("a"), Ch("r"), Ch("e"), Ch("r")>>}

AuthorizationValues == {BearerPrefix \o t : t \in Tokens} \cup UnprefixedValues

\* the header sets of the requests: with or without an Authorization header
RequestHeaders ==
    {{}} \cup {{[name |-> "Authorization", value |-> v]} : v \in AuthorizationValues}

ArticleIDs == {"1", "2"}

\* ------------------------------------------------------------- state
VARIABLES
    jwtKey,       \* the package-level secret
    pc,           \* where each request is in its handler chain
    reqHeaders,   \* the headers each request arrived with
    claimsHeap,   \* the Claims structs allocated by the middleware, by address
    parsed,       \* token, err as ParseWithClaims returned them, per request
    keys,         \* gin.Context.Keys of each request
    resp,         \* the responses written for each request, in order
    aborted       \* whether the request's chain was aborted

vars == <<jwtKey, pc, reqHeaders, claimsHeap, parsed, keys, resp, aborted>>

\* ------------------------------------------------------- gin.Context
\* c.GetHeader: the value of the named header, the empty string if absent
GetHeader(headers, name) ==
    IF \E h \in headers : h.name = name
    THEN (CHOOSE h \in headers : h.name = name).value
    ELSE EmptyString

\* c.JSON: one more response written
JSON(written, status, body) == Append(written, [status |-> status, body |-> body])

\* gin.H{"error": message}
ErrorBody(message) == [error |-> message]

\* variant: the chain is not aborted
AbortForgotten(r) == aborted

\* c.Abort
Abort(r) == [aborted EXCEPT ![r] = TRUE]

\* variant: an empty value is not stored
SetSkipsEmpty(ks, key, value) ==
    IF value = ""
    THEN ks
    ELSE {e \in ks : e.key # key} \cup {[key |-> key, value |-> value]}

\* c.Set
Set(ks, key, value) ==
    {e \in ks : e.key # key} \cup {[key |-> key, value |-> value]}

\* c.Get
HasKey(ks, key) == \E e \in ks : e.key = key
Get(ks, key) == (CHOOSE e \in ks : e.key = key).value

\* variant: one struct, allocated outside the handler, serves every request
NewClaimsShared(r) == 1

\* claims := &Claims{}: the address of the struct allocated for request r
NewClaims(r) == r

\* variant: no presence check
CheckWithoutPresence(authHeader) ==
    IF TrimPrefix(authHeader, BearerPrefix) = authHeader THEN "malformed"
    ELSE "parse"

\* variant: an empty token after the prefix counts as a malformed header
CheckEmptyTokenMalformed(authHeader) ==
    IF authHeader = EmptyString THEN "missing"
    ELSE IF TrimPrefix(authHeader, BearerPrefix) \in {authHeader, EmptyString} THEN "malformed"
    ELSE "parse"

\* the two checks made on the header before any parsing
Check(authHeader) ==
    IF authHeader = EmptyString THEN "missing"
    ELSE IF TrimPrefix(authHeader, BearerPrefix) = authHeader THEN "malformed"
    ELSE "parse"

\* variant: the test of err is inverted
TokenRejectedInverted(p) == p.err = ""

\* err != nil || !token.Valid
TokenRejected(p) == p.err # "" \/ ~p.valid

\* variant: the parser's error is passed on to the caller
InvalidTokenBodyLeaks(p) == ErrorBody(p.err)

\* the body answered to a token that failed validation
InvalidTokenBody(p) == ErrorBody(MsgInvalidToken)

\* what is kept of a parse: token.Valid, err and the key function's record
Outcome(res) ==
    [attempted |-> TRUE, err |-> res.err, valid |-> res.valid,
     keyFuncCalled |-> res.keyFuncCalled, keyReturned |-> res.keyReturned]

NoOutcome ==
    [attempted |-> FALSE, err |-> "", valid |-> FALSE,
     keyFuncCalled |-> FALSE, keyReturned |-> FALSE]

\* the article GetArticleByID answers with
Article == [ID |-> "1", Title |-> "Aprendendo Go e Swagger",
            Content |-> "A integracao e mais simples do que parece!"]

\* ------------------------------------------------------------- actions
Init ==
    /\ jwtKey = Secret
    /\ pc = [r \in Requests |-> "idle"]
    /\ reqHeaders = [r \in Requests |-> {}]
    /\ claimsHeap = [a \in Requests |-> ZeroClaims]
    /\ parsed = [r \in Requests |-> NoOutcome]
    /\ keys = [r \in Requests |-> {}]
    /\ resp = [r \in Requests |-> << >>]
    /\ aborted = [r \in Requests |-> FALSE]

\* AuthMiddleware, called on a request that arrives with some headers, up to
\* the return of jwt.ParseWithClaims
AuthMiddlewareVerify(r) ==
    /\ pc[r] = "idle"
    /\ \E headers \in RequestHeaders :
         LET authHeader  == GetHeader(headers, "Authorization")
             tokenString == TrimPrefix(authHeader, BearerPrefix)
             res         == ParseWithClaims(tokenString, ZeroClaims, jwtKey, Now)
         IN
         /\ reqHeaders' = [reqHeaders EXCEPT ![r] = headers]
         /\ IF Check(authHeader) = "missing"
            THEN /\ resp' = [resp EXCEPT ![r] =
                               JSON(@, StatusUnauthorized, ErrorBody(MsgHeaderNotFound))]
                 /\ aborted' = Abort(r)
                 /\ pc' = [pc EXCEPT ![r] = "next"]
                 /\ UNCHANGED <<claimsHeap, parsed>>
            ELSE IF Check(authHeader) = "malformed"
            THEN /\ resp' = [resp EXCEPT ![r] =
                               JSON(@, StatusUnauthorized, ErrorBody(MsgInvalidFormat))]
                 /\ aborted' = Abort(r)
                 /\ pc' = [pc EXCEPT ![r] = "next"]
                 /\ UNCHANGED <<claimsHeap, parsed>>
            ELSE /\ claimsHeap' = [claimsHeap EXCEPT ![NewClaims(r)] = res.claims]
                 /\ parsed' = [parsed EXCEPT ![r] = Outcome(res)]
                 /\ pc' = [pc EXCEPT ![r] = "decide"]
                 /\ UNCHANGED <<resp, aborted>>
    /\ UNCHANGED <<jwtKey, keys>>

\* AuthMiddleware from the test of err and token.Valid to c.Next
AuthMiddlewareDecide(r) ==
    /\ pc[r] = "decide"
    /\ IF TokenRejected(parsed[r])
       THEN /\ resp' = [resp EXCEPT ![r] =
                          JSON(@, StatusUnauthorized, InvalidTokenBody(parsed[r]))]
            /\ aborted' = Abort(r)
            /\ UNCHANGED keys
       ELSE /\ keys' = [keys EXCEPT ![r] =
                          Set(@, "username", claimsHeap[NewClaims(r)].Username)]
            /\ UNCHANGED <<resp, aborted>>
    /\ pc' = [pc EXCEPT ![r] = "next"]
    /\ UNCHANGED <<jwtKey, reqHeaders, claimsHeap, parsed>>

\* the chain's next handler, which runs unless the chain was aborted
GetArticleByID(r) ==
    /\ pc[r] = "next"
    /\ ~aborted[r]
    /\ \E id \in ArticleIDs :
          resp' = [resp EXCEPT ![r] =
                     IF id = "1"
                     THEN JSON(@, StatusOK, Article)
                     ELSE JSON(@, StatusNotFound, ErrorBody(MsgArticleNotFound))]
    /\ pc' = [pc EXCEPT ![r] = "done"]
    /\ UNCHANGED <<jwtKey, reqHeaders, claimsHeap, parsed, keys, aborted>>

Next ==
    \E r \in Requests :
        \/ AuthMiddlewareVerify(r)
        \/ AuthMiddlewareDecide(r)
        \/ GetArticleByID(r)

Spec == Init /\ [][Next]_vars

\* ------------------------------------------------------------- properties
\* the value c.GetHeader reads for request r
AuthValue(r) == GetHeader(reqHeaders[r], "Authorization")

CarriesBearer(r) == HasPrefix(AuthValue(r), BearerPrefix)

\* what follows the prefix in the header of r
BearerToken(r) == SubSeq(AuthValue(r), Len(BearerPrefix) + 1, Len(AuthValue(r)))

\* the middleware has returned for r
Returned(r) == pc[r] \in {"next", "done"}

\* r was answered 401 with this message and nothing else, and its chain stopped
RejectedWith(r, message) ==
    /\ resp[r] = <<[status |-> StatusUnauthorized, body |-> ErrorBody(message)]>>
    /\ aborted[r]
    /\ pc[r] = "next"

\* r went past the middleware: no 401 written, the next handler runs
Admitted(r) ==
    /\ Returned(r)
    /\ ~aborted[r]
    /\ \A i \in 1..Len(resp[r]) : resp[r][i].status # StatusUnauthorized
    /\ pc[r] = "next" => ENABLED GetArticleByID(r)

Identity(r) == Get(keys[r], "username")

VerificationSucceeded(r) ==
    /\ AuthValue(r) # EmptyString
    /\ CarriesBearer(r)
    /\ parsed[r].attempted
    /\ parsed[r].err = ""
    /\ parsed[r].valid

NotExpired(payload) == "exp" \in DOMAIN payload => Now < payload.exp
NotBeforeReached(payload) == "nbf" \in DOMAIN payload => payload.nbf <= Now
HasUsername(payload) == "username" \in DOMAIN payload
NoIdentity(payload) == ~HasUsername(payload) \/ payload.username = ""

\* C1: the context of a request holds "username" exactly when the middleware
\* has returned and verification succeeded for that request; a rejected
\* request never has it, and a request whose handler ran has it.
C1_IdentityIffVerified ==
    \A r \in Requests :
        /\ Returned(r) => (HasKey(keys[r], "username") <=> VerificationSucceeded(r))
        /\ ~Returned(r) => ~HasKey(keys[r], "username")
        /\ aborted[r] => ~HasKey(keys[r], "username")
        /\ pc[r] = "done" => HasKey(keys[r], "username")

C1_Witness ==
    \E r1, r2 \in Requests :
        /\ pc[r1] = "done" /\ HasKey(keys[r1], "username")
        /\ Returned(r2) /\ aborted[r2] /\ parsed[r2].attempted
        /\ ~HasKey(keys[r2], "username")

FailedCheck(r) ==
    \/ AuthValue(r) = EmptyString
    \/ ~CarriesBearer(r)
    \/ (parsed[r].attempted /\ (parsed[r].err # "" \/ ~parsed[r].valid))

\* C2: a request that fails any of the three checks is answered 401 with a
\* body {"error": message} and nothing else, its chain is aborted, and
\* GetArticleByID never runs for it.
C2_FailureStopsChain ==
    \A r \in Requests :
        Returned(r) /\ FailedCheck(r) =>
            /\ \E m \in {MsgHeaderNotFound, MsgInvalidFormat, MsgInvalidToken} :
                   RejectedWith(r, m)
            /\ pc[r] # "done"
            /\ ~ENABLED GetArticleByID(r)

C2_Witness ==
    \E r1, r2 \in Requests :
        /\ FailedCheck(r1) /\ RejectedWith(r1, MsgInvalidFormat)
        /\ FailedCheck(r2) /\ RejectedWith(r2, MsgInvalidToken)

\* C3: a request whose Authorization value reads as the empty string is
\* rejected with the "header not found" response, not the one of the scheme
\* check, and no parse of a token is attempted for it.
C3_MissingHeaderRejected ==
    \A r \in Requests :
        Returned(r) /\ AuthValue(r) = EmptyString =>
            /\ RejectedWith(r, MsgHeaderNotFound)
            /\ ~parsed[r].attempted

C3_Witness ==
    \E r \in Requests :
        reqHeaders[r] = {} /\ Returned(r) /\ RejectedWith(r, MsgHeaderNotFound)

\* C4 (as amended): a non-empty Authorization value that does not start with
\* "Bearer " is rejected with the "invalid format" response and no parse of a
\* token is attempted for it.
C4_NonEmptyUnprefixedRejected ==
    \A r \in Requests :
        Returned(r) /\ AuthValue(r) # EmptyString /\ ~CarriesBearer(r) =>
            /\ RejectedWith(r, MsgInvalidFormat)
            /\ ~parsed[r].attempted

C4_Witness ==
    \E r \in Requests :
        /\ AuthValue(r) = <<Ch("b"), Ch("e"), Ch("a"), Ch("r"), Ch("e"), Ch("r"), Ch(" ")>> \o AliceToken
        /\ RejectedWith(r, MsgInvalidFormat)

\* C4 (as stated): every value of an Authorization header that does not start
\* with "Bearer " is rejected with the "invalid format" response.
C4_Original ==
    \A r \in Requests :
        Returned(r) /\ reqHeaders[r] # {} /\ ~CarriesBearer(r) =>
            /\ RejectedWith(r, MsgInvalidFormat)
            /\ ~parsed[r].attempted

\* C5: the header "Bearer " passes the scheme check, its empty token is handed
\* to the parser, and the request is rejected with the "invalid token"
\* response.
C5_EmptyTokenReachesParser ==
    \A r \in Requests :
        AuthValue(r) = BearerPrefix =>
            /\ pc[r] # "idle" => parsed[r].attempted
            /\ Returned(r) => RejectedWith(r, MsgInvalidToken)

C5_Witness ==
    \E r \in Requests :
        /\ AuthValue(r) = BearerPrefix
        /\ parsed[r].attempted /\ parsed[r].err = "malformed"
        /\ RejectedWith(r, MsgInvalidToken)

\* the token of r is what an issuer holding the secret mints for payload
MintedFor(r, alg, payload) == AuthValue(r) = BearerPrefix \o Mint(alg, jwtKey, payload)

\* the token of r is a header, a payload and the HMAC of both under jwtKey
SignedUnderSecret(r) ==
    LET token == BearerToken(r) IN
    /\ CarriesBearer(r)
    /\ Len(token) = 5
    /\ IsHdrSeg(token[1])
    /\ IsClaimsSeg(token[3])
    /\ token[1].hdr.alg \in HMACMethods
    /\ token = Mint(token[1].hdr.alg, jwtKey, token[3].cl)

\* the payload of the token of r
OwnPayload(r) == BearerToken(r)[3].cl

\* r is admitted and the identity in its context is exactly username
AdmittedAs(r, username) ==
    /\ Admitted(r)
    /\ HasKey(keys[r], "username")
    /\ Identity(r) = username

\* C6 (as amended): a token signed with an HMAC algorithm under jwtKey, not
\* expired, not before its not-before time if it carries one, and carrying
\* username u is admitted, and the identity in the context is exactly u.
C6_IssuedTokenAdmitted ==
    \A r \in Requests :
        /\ Returned(r)
        /\ SignedUnderSecret(r)
        /\ HasUsername(OwnPayload(r))
        /\ NotExpired(OwnPayload(r))
        /\ NotBeforeReached(OwnPayload(r))
        => AdmittedAs(r, OwnPayload(r).username)

C6_Witness ==
    \E r \in Requests :
        /\ pc[r] = "done"
        /\ MintedFor(r, "HS512", BobPayload)
        /\ AdmittedAs(r, "bob")

\* C6 (as stated): a token signed with an HMAC algorithm under jwtKey, not
\* expired and carrying username u is admitted with identity u.
C6_Original ==
    \A r \in Requests :
        /\ Returned(r)
        /\ SignedUnderSecret(r)
        /\ HasUsername(OwnPayload(r))
        /\ NotExpired(OwnPayload(r))
        => AdmittedAs(r, OwnPayload(r).username)

\* the token of r has a header segment that declares an algorithm outside the
\* HMAC family
DeclaresNonHMAC(r) ==
    /\ CarriesBearer(r)
    /\ Len(BearerToken(r)) >= 1
    /\ IsHdrSeg(BearerToken(r)[1])
    /\ BearerToken(r)[1].hdr.alg \notin HMACMethods

\* C7: for a token that declares "none" or any other non-HMAC algorithm the
\* key function never hands out the secret, and the request is rejected with
\* the "invalid token" response, whatever the payload and signature.
C7_NonHMACRejected ==
    \A r \in Requests :
        DeclaresNonHMAC(r) =>
            /\ ~parsed[r].keyReturned
            /\ ~HasKey(keys[r], "username")
            /\ Returned(r) => RejectedWith(r, MsgInvalidToken)

C7_Witness ==
    \E r1, r2 \in Requests :
        /\ DeclaresNonHMAC(r1) /\ BearerToken(r1)[1].hdr.alg = "none"
        /\ parsed[r1].keyFuncCalled /\ RejectedWith(r1, MsgInvalidToken)
        /\ DeclaresNonHMAC(r2) /\ BearerToken(r2)[1].hdr.alg = "RS256"
        /\ parsed[r2].keyFuncCalled /\ RejectedWith(r2, MsgInvalidToken)

\* the token of r failed validation in the parser
FailedValidation(r) == Returned(r) /\ parsed[r].attempted /\ parsed[r].err # ""

\* C8: every token that fails validation is answered with the "invalid token"
\* response, and two requests whose tokens fail for different reasons get the
\* same status code and body.
C8_FailuresIndistinguishable ==
    /\ \A r \in Requests : FailedValidation(r) => RejectedWith(r, MsgInvalidToken)
    /\ \A r1, r2 \in Requests :
           FailedValidation(r1) /\ FailedValidation(r2) /\ parsed[r1].err # parsed[r2].err
           => resp[r1] = resp[r2]

C8_Witness ==
    \E r1, r2 \in Requests :
        /\ FailedValidation(r1) /\ parsed[r1].err = "signature_invalid"
        /\ FailedValidation(r2) /\ parsed[r2].err = "expired"
        /\ resp[r1] = resp[r2]
        /\ Len(resp[r1]) = 1

\* the username member of the payload in r's own token
OwnUsername(r) ==
    LET payload == BearerToken(r)[3].cl
    IN  IF "username" \in DOMAIN payload THEN payload.username ELSE ""

\* C9: whatever the interleaving of the requests, the secret keeps its value,
\* the identity in a request's context is the one in that request's own
\* token, and two requests with the same headers get the same outcome.
C9_RequestsIndependent ==
    /\ jwtKey = Secret
    /\ \A r \in Requests :
           HasKey(keys[r], "username") =>
               /\ CarriesBearer(r)
               /\ Len(BearerToken(r)) = 5
               /\ IsClaimsSeg(BearerToken(r)[3])
               /\ Identity(r) = OwnUsername(r)
    /\ \A r1, r2 \in Requests :
           Returned(r1) /\ Returned(r2) /\ reqHeaders[r1] = reqHeaders[r2] =>
               /\ aborted[r1] = aborted[r2]
               /\ keys[r1] = keys[r2]
               /\ (pc[r1] = "next" /\ pc[r2] = "next") => resp[r1] = resp[r2]

C9_Witness ==
    \E r1, r2 \in Requests :
        /\ pc[r1] = "next" /\ AdmittedAs(r1, "alice")
        /\ pc[r2] = "decide" /\ claimsHeap[NewClaims(r2)].Username = "bob"

\* C10 (as amended): a token signed with an HMAC algorithm under jwtKey, not
\* expired, not before its not-before time if it carries one, and carrying no
\* username or an empty one is admitted with the empty string as identity.
C10_EmptyIdentityAdmitted ==
    \A r \in Requests :
        /\ Returned(r)
        /\ SignedUnderSecret(r)
        /\ NoIdentity(OwnPayload(r))
        /\ NotExpired(OwnPayload(r))
        /\ NotBeforeReached(OwnPayload(r))
        => AdmittedAs(r, "")

C10_Witness ==
    \E r1, r2 \in Requests :
        /\ pc[r1] = "done" /\ MintedFor(r1, "HS256", NoUserPayload) /\ AdmittedAs(r1, "")
        /\ pc[r2] = "done" /\ MintedFor(r2, "HS256", EmptyUserPayload) /\ AdmittedAs(r2, "")

\* C10 (as stated): a token signed with an HMAC algorithm under jwtKey, not
\* expired and carrying no username or an empty one is admitted with the
\* empty string as identity.
C10_Original ==
    \A r \in Requests :
        /\ Returned(r)
        /\ SignedUnderSecret(r)
        /\ NoIdentity(OwnPayload(r))
        /\ NotExpired(OwnPayload(r))
        => AdmittedAs(r, "")

====
